---- MODULE Spec2Model ----
(***************************************************************************)
(* Model of dashboard.py: three CSV files are loaded into data frames, each *)
(* tab cleans its frame in place and derives its metrics, and a final test  *)
(* reports when no frame holds data.                                        *)
(*                                                                          *)
(* Cell texts are sequences of one-character strings.  Floating point       *)
(* numbers are modelled exactly, as integers counting millionths (Unit);    *)
(* the sample texts carry at most two decimals, so every division by 100    *)
(* the script performs is exact in this representation.                     *)
(***************************************************************************)
EXTENDS Integers, Sequences, FiniteSets, TLC

\* ------------------------------------------------------------------ bounds
\* Largest number of data rows of a generated CSV file.
MaxRows == 2

\* ------------------------------------------------------------ number model
Unit == 10 * 10 * 10 * 10 * 10 * 10

Abs(n) == IF n < 0 THEN 0 - n ELSE n

RECURSIVE Pow10(_)
Pow10(k) == IF k = 0 THEN 1 ELSE 10 * Pow10(k - 1)

\* ------------------------------------------------------------------ cells
\* A cell is a float (num), the float NaN (nan), pandas' NA scalar (NA) or a
\* Python string (str).
Num(n) == [t |-> "num", n |-> n, s |-> <<>>]
NaN    == [t |-> "nan", n |-> 0, s |-> <<>>]
NA     == [t |-> "NA",  n |-> 0, s |-> <<>>]
Str(s) == [t |-> "str", n |-> 0, s |-> s]
\* The floats +inf (n = 1) and -inf (n = -1), which a division by zero gives.
Inf(sign) == [t |-> "inf", n |-> sign, s |-> <<>>]

IsNum(c) == c.t = "num"
\* pd.isna / Series.isna: NaN, None and pd.NA are missing.
isna(c) == c.t \in {"nan", "NA"}

\* ------------------------------------------------------- float(): parsing
Digit == {"0", "1", "2", "3", "4", "5", "6", "7", "8", "9"}

DigitVal(c) ==
    CASE c = "0" -> 0 [] c = "1" -> 1 [] c = "2" -> 2 [] c = "3" -> 3
      [] c = "4" -> 4 [] c = "5" -> 5 [] c = "6" -> 6 [] c = "7" -> 7
      [] c = "8" -> 8 [] c = "9" -> 9

RECURSIVE DigitsVal(_)
DigitsVal(s) ==
    IF s = <<>> THEN 0
    ELSE 10 * DigitsVal(SubSeq(s, 1, Len(s) - 1)) + DigitVal(s[Len(s)])

AllDigits(s) == \A i \in 1..Len(s) : s[i] \in Digit

\* Position of the first "." of s, or Len(s) + 1 when there is none.
DotPos(s) ==
    IF \E i \in 1..Len(s) : s[i] = "."
    THEN CHOOSE i \in 1..Len(s) : s[i] = "." /\ \A j \in 1..(i - 1) : s[j] # "."
    ELSE Len(s) + 1

\* An unsigned decimal literal: digits, optionally a point and more digits,
\* at least one digit in all.  Fractions longer than six digits are outside
\* the number model and are not generated.
ParseParts(ip, fp) ==
    IF AllDigits(ip) /\ AllDigits(fp) /\ Len(ip) + Len(fp) > 0 /\ Len(fp) <= 6
    THEN Num(DigitsVal(ip) * Unit + DigitsVal(fp) * Pow10(6 - Len(fp)))
    ELSE NaN
ParseUnsigned(s) == ParseParts(SubSeq(s, 1, DotPos(s) - 1), SubSeq(s, DotPos(s) + 1, Len(s)))

\* pd.to_numeric(text, errors='coerce') on one string: an optional sign and
\* a decimal literal give the number, every other text (the text "nan"
\* included) gives NaN.
Signed(negative, c) == IF negative /\ IsNum(c) THEN Num(0 - c.n) ELSE c
ParseText(s) ==
    IF s = <<>> THEN NaN
    ELSE Signed(s[1] = "-", ParseUnsigned(IF s[1] \in {"-", "+"} THEN Tail(s) ELSE s))

\* pd.to_numeric(value, errors='coerce') on one cell of any type.
to_numeric(c) ==
    CASE c.t = "num" -> c
      [] c.t = "str" -> ParseText(c.s)
      [] OTHER       -> NaN

\* ---------------------------------------------------- str(): formatting
DigitChar(d) ==
    CASE d = 0 -> "0" [] d = 1 -> "1" [] d = 2 -> "2" [] d = 3 -> "3"
      [] d = 4 -> "4" [] d = 5 -> "5" [] d = 6 -> "6" [] d = 7 -> "7"
      [] d = 8 -> "8" [] d = 9 -> "9"

RECURSIVE NatText(_)
NatText(n) ==
    IF n < 10 THEN <<DigitChar(n)>>
    ELSE NatText(n \div 10) \o <<DigitChar(n % 10)>>

\* The k decimal digits of f, zero padded on the left.
RECURSIVE FixedText(_, _)
FixedText(f, k) ==
    IF k = 0 THEN <<>>
    ELSE FixedText(f \div 10, k - 1) \o <<DigitChar(f % 10)>>

RECURSIVE StripZeros(_)
StripZeros(s) ==
    IF Len(s) > 1 /\ s[Len(s)] = "0" THEN StripZeros(SubSeq(s, 1, Len(s) - 1))
    ELSE s

\* str(x) of a Python float in positional notation: the shortest text that
\* reads back as x, with at least one fractional digit ("45.0", "0.0075").
\* Magnitudes below 1e-4, which Python prints with an exponent, do not
\* occur as inputs of a cleaning pass within the bounds.
FloatText(n) ==
    (IF n < 0 THEN <<"-">> ELSE <<>>)
    \o NatText(Abs(n) \div Unit) \o <<".">> \o StripZeros(FixedText(Abs(n) % Unit, 6))

\* str(i) of an int64 value.
IntText(n) == (IF n < 0 THEN <<"-">> ELSE <<>>) \o NatText(Abs(n) \div Unit)

\* Series.astype(str) on one cell of a column of the given dtype.
astype_str(c, dtype) ==
    CASE c.t = "str" -> c
      [] c.t = "nan" -> Str(<<"n", "a", "n">>)
      [] c.t = "NA"  -> Str(<<"<", "N", "A", ">">>)
      [] c.t = "num" -> IF dtype = "int64" THEN Str(IntText(c.n)) ELSE Str(FloatText(c.n))

\* str.rstrip('%'): every trailing "%" is removed.
RECURSIVE rstrip_pct(_)
rstrip_pct(s) ==
    IF s # <<>> /\ s[Len(s)] = "%" THEN rstrip_pct(SubSeq(s, 1, Len(s) - 1))
    ELSE s

\* str.endswith('%')
endswith_pct(s) == s # <<>> /\ s[Len(s)] = "%"

\* str.replace('+', ''): every "+" is removed, wherever it stands.
RECURSIVE remove_plus(_)
remove_plus(s) ==
    IF s = <<>> THEN <<>>
    ELSE IF s[1] = "+" THEN remove_plus(Tail(s))
    ELSE <<s[1]>> \o remove_plus(Tail(s))

\* x / 100.0
div100(c) == IF IsNum(c) THEN Num(c.n \div 100) ELSE NaN

\* ------------------------------------------------------------ data frames
\* A frame holds its row labels (index), and per column a dtype and the
\* cells in row order.  pd.DataFrame() has no column and no row.
NoColumns == [c \in {} |-> 0]
EmptyFrame == [index |-> <<>>, dtype |-> NoColumns, data |-> NoColumns]

columns(df) == DOMAIN df.dtype
nrows(df) == Len(df.index)
\* DataFrame.empty: an axis of length 0.
empty(df) == nrows(df) = 0 \/ columns(df) = {}

\* The positions of a sequence that satisfy keep, in order.
RECURSIVE SelectPos(_, _)
SelectPos(n, keep) ==
    IF n = 0 THEN <<>>
    ELSE IF n \in keep THEN Append(SelectPos(n - 1, keep), n)
    ELSE SelectPos(n - 1, keep)

\* df[mask] / df.take: the rows at the given positions, in the given order.
take(df, pos) ==
    [index |-> [i \in 1..Len(pos) |-> df.index[pos[i]]],
     dtype |-> df.dtype,
     data  |-> [c \in columns(df) |-> [i \in 1..Len(pos) |-> df.data[c][pos[i]]]]]

\* df.dropna(subset=cols): rows with no missing cell in any of cols.
dropna(df, cols) ==
    take(df, SelectPos(nrows(df),
                       {i \in 1..nrows(df) : \A c \in cols : ~isna(df.data[c][i])}))

\* Series.replace(['unch', 'N/A', ''], value) on one cell.
placeholders == {<<"u", "n", "c", "h">>, <<"N", "/", "A">>, <<>>}
replace(c, value) == IF c.t = "str" /\ c.s \in placeholders THEN value ELSE c

\* The frame of the given row labels and columns (name -> dtype and cells).
frame_of(index, cols) ==
    [index |-> index,
     dtype |-> [c \in DOMAIN cols |-> cols[c].dtype],
     data  |-> [c \in DOMAIN cols |-> cols[c].cells]]

\* One column of a frame, and a frame with one column assigned.
column(df, c) == [dtype |-> df.dtype[c], cells |-> df.data[c]]
assign(df, c, col) ==
    [index |-> df.index,
     dtype |-> [k \in columns(df) \cup {c} |-> IF k = c THEN col.dtype ELSE df.dtype[k]],
     data  |-> [k \in columns(df) \cup {c} |-> IF k = c THEN col.cells ELSE df.data[k]]]

\* Series.apply(f) keeping the dtype tag given.
map(col, f(_), dtype) ==
    [dtype |-> dtype, cells |-> [i \in 1..Len(col.cells) |-> f(col.cells[i])]]

\* Series.replace(['unch', 'N/A', ''], value): the dtype is kept.
replace_column(col, value) ==
    LET f(c) == replace(c, value) IN map(col, f, col.dtype)

\* pd.to_numeric(series, errors='coerce'): a numeric column is returned as
\* it is; a column of objects becomes int64 when every cell is an integer
\* text, float64 otherwise.
to_numeric_column(col) ==
    IF col.dtype # "object" THEN col
    ELSE map(col, to_numeric,
             IF \A i \in 1..Len(col.cells) :
                   /\ col.cells[i].t = "str"
                   /\ IsNum(ParseText(col.cells[i].s))
                   /\ DotPos(col.cells[i].s) > Len(col.cells[i].s)
             THEN "int64" ELSE "float64")

\* percent_column dividing by 100 only the texts that end in "%".
percent_text_marked_only(s) ==
    IF endswith_pct(s) THEN div100(ParseText(rstrip_pct(s))) ELSE ParseText(s)
percent_column_marked_only(col) ==
    LET f(c) == percent_text_marked_only(astype_str(c, col.dtype).s)
    IN  map(col, f, "float64")

\* pd.to_numeric(series.astype(str).str.rstrip('%'), errors='coerce') / 100.0
percent_column(col) ==
    LET f(c) == div100(ParseText(rstrip_pct(astype_str(c, col.dtype).s)))
    IN  map(col, f, "float64")

\* ------------------------------------------------------------- load_data
\* Texts that pd.read_csv reads as NaN with its default na_values.
na_values ==
    {<<>>, <<"N", "/", "A">>, <<"N", "A">>, <<"n", "/", "a">>, <<"N", "a", "N">>,
     <<"n", "a", "n">>, <<"n", "u", "l", "l">>, <<"N", "U", "L", "L">>,
     <<"N", "o", "n", "e">>, <<"<", "N", "A", ">">>, <<"#", "N", "/", "A">>}

\* One parsed column: numeric when every text that is not an NA text is a
\* number (int64 when all are integers and none is missing), else strings.
read_cell(text, numeric) ==
    IF text \in na_values THEN NaN
    ELSE IF numeric THEN ParseText(text) ELSE Str(text)
read_column(texts) ==
    IF Len(texts) = 0 THEN [dtype |-> "object", cells |-> <<>>]
    ELSE IF \A i \in 1..Len(texts) : texts[i] \in na_values \/ IsNum(ParseText(texts[i]))
    THEN [dtype |-> IF \A i \in 1..Len(texts) :
                          texts[i] \notin na_values /\ DotPos(texts[i]) > Len(texts[i])
                    THEN "int64" ELSE "float64",
          cells |-> [i \in 1..Len(texts) |-> read_cell(texts[i], TRUE)]]
    ELSE [dtype |-> "object",
          cells |-> [i \in 1..Len(texts) |-> read_cell(texts[i], FALSE)]]

\* pd.read_csv(file_path) on a readable file: a RangeIndex and one parsed
\* column per header name.
read_csv(file) ==
    frame_of([i \in 1..Len(file.rows) |-> i - 1],
             [c \in file.header |->
                 read_column([i \in 1..Len(file.rows) |-> file.rows[i][c]])])

\* load_data: the frame, and the st.error it shows when the read fails.
load_data(file, file_name) ==
    CASE file.status = "ok" ->
            [df |-> read_csv(file), shown |-> {}]
      [] file.status = "missing" ->
            [df |-> EmptyFrame, shown |-> {<<"error", "not found", file_name>>}]
      [] OTHER ->
            [df |-> EmptyFrame, shown |-> {<<"error", "load failed", file_name>>}]

\* ---------------------------------------------------- tab1: chain cleaning
\* Names bound at module level by the import statements.
module_names == {"st", "pd", "px", "go"}

plain_numeric_cols_cadena ==
    {"Delta", "Strike", "Bid", "Mid", "Ask", "Last", "Volume", "Open Int"}
cols_for_style_and_plot_cadena ==
    {"IV", "Delta", "Moneyness", "Strike", "Volume", "Open Int"}

\* clean_iv(val) for a cell of a column of the given dtype.
clean_iv_text(s_val) ==
    IF endswith_pct(s_val) THEN div100(ParseText(rstrip_pct(s_val)))
    ELSE div100(ParseText(s_val))
clean_iv(val, dtype) ==
    IF isna(val) THEN NaN ELSE clean_iv_text(astype_str(val, dtype).s)

\* clean_moneyness(val): a text without "%" is not divided by 100.
clean_moneyness_text(s_val) ==
    IF endswith_pct(s_val) THEN div100(ParseText(rstrip_pct(s_val)))
    ELSE ParseText(s_val)
clean_moneyness(val, dtype) ==
    IF isna(val) THEN NaN
    ELSE clean_moneyness_text(remove_plus(astype_str(val, dtype).s))

\* One column of the chain frame after its cleaning block.
clean_column_cadena(c, col) ==
    IF c = "IV" THEN LET f(v) == clean_iv(v, col.dtype) IN map(col, f, "float64")
    ELSE IF c = "Moneyness"
    THEN LET f(v) == clean_moneyness(v, col.dtype) IN map(col, f, "float64")
    ELSE to_numeric_column(col)

\* The three cleaning blocks of tab1 and the dropna that ends them.  Each
\* block evaluates np.nan before it assigns anything, so with np unbound the
\* first declared column that is present raises NameError and the frame is
\* as it was loaded.
clean_df_cadena(df) ==
    IF ({"IV", "Moneyness"} \cup plain_numeric_cols_cadena) \cap columns(df) # {}
       /\ "np" \notin module_names
    THEN [raised |-> TRUE, df |-> df, shown |-> {}]
    ELSE [raised |-> FALSE,
          df |-> dropna(frame_of(df.index,
                                 [c \in columns(df) |->
                                    IF c \in {"IV", "Moneyness"} \cup plain_numeric_cols_cadena
                                    THEN clean_column_cadena(
                                             c, replace_column(column(df, c), NaN))
                                    ELSE column(df, c)]),
                        cols_for_style_and_plot_cadena \cap columns(df)),
          shown |-> {}]

\* --------------------------------------------------- tab2: greeks cleaning
\* cols_to_clean_griegas: column -> is_percent.
cols_to_clean_griegas ==
    [c \in {"IV", "ITM Prob", "Delta", "Gamma", "Theta", "Vega", "Strike", "Bid",
            "Ask", "Volume", "Open Int"} |-> c \in {"IV", "ITM Prob"}]

clean_column_griegas(c, col) ==
    IF cols_to_clean_griegas[c] THEN percent_column(col) ELSE to_numeric_column(col)

clean_df_griegas(df) ==
    [raised |-> FALSE,
     df |-> dropna(frame_of(df.index,
                            [c \in columns(df) |->
                               IF c \in DOMAIN cols_to_clean_griegas
                               THEN clean_column_griegas(c, replace_column(column(df, c), NA))
                               ELSE column(df, c)]),
                   DOMAIN cols_to_clean_griegas \cap columns(df)),
     shown |-> {<<"warning", "column not found", c>> :
                  c \in DOMAIN cols_to_clean_griegas \ columns(df)}]

\* ----------------------------------------------------- tab3: flow cleaning
\* cols_to_clean_inusual: column -> is_strictly_percent.
cols_to_clean_inusual ==
    [c \in {"IV", "Delta", "Price~", "Strike", "DTE", "Trade", "Size", "Premium",
            "Volume", "Open Int"} |-> c = "IV"]
critical_cols_inusual ==
    {"Premium", "Size", "Volume", "Open Int", "Strike", "IV", "Delta"}

\* pd.to_datetime(series, errors='coerce') on one cell: a text of the form
\* YYYY-MM-DD is a date, every other cell becomes NaT.
to_datetime(c) ==
    IF /\ c.t = "str"
       /\ Len(c.s) = 10
       /\ \A i \in 1..10 : IF i \in {5, 8} THEN c.s[i] = "-" ELSE c.s[i] \in Digit
    THEN c ELSE NaN

\* The Delta branch: a column of objects is stripped of "%" and parsed, and
\* divided by 100 as a whole when any parsed value exceeds 5 in magnitude;
\* a column that is already numeric is returned as it is.
scale_each_large(parsed) ==
    LET f(c) == IF IsNum(c) /\ Abs(c.n) > 5 * Unit THEN div100(c) ELSE c
    IN  map(parsed, f, "float64")
scale_if_large(parsed) ==
    IF \E i \in 1..Len(parsed.cells) :
           IsNum(parsed.cells[i]) /\ Abs(parsed.cells[i].n) > 5 * Unit
    THEN map(parsed, div100, "float64")
    ELSE parsed
delta_column(col) ==
    IF col.dtype = "object"
    THEN LET f(c) == ParseText(rstrip_pct(astype_str(c, col.dtype).s))
         IN  scale_if_large(map(col, f, "float64"))
    ELSE to_numeric_column(col)

clean_column_inusual(c, col) ==
    IF cols_to_clean_inusual[c] THEN percent_column(col)
    ELSE IF c = "Delta" THEN delta_column(col)
    ELSE to_numeric_column(col)

clean_df_inusual(df) ==
    [raised |-> FALSE,
     df |-> dropna(frame_of(df.index,
                            [c \in columns(df) |->
                               IF c = "Expires"
                               THEN map(column(df, c), to_datetime, "datetime64")
                               ELSE IF c \in DOMAIN cols_to_clean_inusual
                               THEN clean_column_inusual(c, replace_column(column(df, c), NA))
                               ELSE column(df, c)]),
                   critical_cols_inusual \cap columns(df)),
     shown |-> {<<"warning", "column not found", c>> :
                  c \in DOMAIN cols_to_clean_inusual \ columns(df)}]

\* ---------------------------------------------------------------- metrics
\* A value that a branch of the script may never assign.
Unset == [set |-> FALSE, v |-> <<>>]
Value(v) == [set |-> TRUE, v |-> v]

Call == Str(<<"C", "a", "l", "l">>)
Put  == Str(<<"P", "u", "t">>)

\* Series.sum(): the sum of the numbers of a column, missing cells skipped.
RECURSIVE sum(_)
sum(cells) ==
    IF cells = <<>> THEN 0
    ELSE (IF IsNum(cells[Len(cells)]) THEN cells[Len(cells)].n ELSE 0)
         + sum(SubSeq(cells, 1, Len(cells) - 1))

\* The numbers at the given positions of a column.
numbers(cells, pos) == [i \in 1..Len(pos) |-> cells[pos[i]].n]

\* df[df[c] == value]
where(df, c, value) ==
    take(df, SelectPos(nrows(df), {i \in 1..nrows(df) : df.data[c][i] = value}))

\* total_puts / total_calls if total_calls > 0 else 0, as the pair of the
\* dividend and the divisor (0 is the pair <<0, 1>>).
ratio(total_puts, total_calls) ==
    IF total_calls > 0 THEN <<total_puts, total_calls>> ELSE <<0, 1>>
pc_ratio(df, measure) ==
    ratio(sum(where(df, "Type", Put).data[measure]),
          sum(where(df, "Type", Call).data[measure]))

\* a * b / 10^k for numbers counted in Units, dividing before multiplying
\* wherever a factor ends in a zero.
RECURSIVE MulDiv(_, _, _)
MulDiv(a, b, k) ==
    IF a = 0 \/ b = 0 THEN 0
    ELSE IF k = 0 THEN a * b
    ELSE IF a % 10 = 0 THEN MulDiv(a \div 10, b, k - 1)
    ELSE IF b % 10 = 0 THEN MulDiv(a, b \div 10, k - 1)
    ELSE (a * b) \div Pow10(k)

\* df[greek] * df['Open Int'] * 100, cell by cell.
exposure_column(df, greek) ==
    [dtype |-> "float64",
     cells |-> [i \in 1..nrows(df) |->
                  IF IsNum(df.data[greek][i]) /\ IsNum(df.data["Open Int"][i])
                  THEN Num(100 * MulDiv(df.data[greek][i].n, df.data["Open Int"][i].n, 6))
                  ELSE NaN]]

\* The numbers of a set, ascending.
RECURSIVE Ascending(_)
Ascending(S) ==
    IF S = {} THEN <<>>
    ELSE LET m == CHOOSE x \in S : \A y \in S : x <= y
         IN  <<m>> \o Ascending(S \ {m})

\* df.groupby('Strike')[value].sum() with the keys as a column: one entry per
\* distinct non-missing Strike, ascending (groupby sorts its keys).
sum_by_key(df, keys, value) ==
    [k \in 1..Len(keys) |->
        [Strike |-> keys[k],
         total  |-> sum(where(df, "Strike", Num(keys[k])).data[value])]]

\* groupby_strike_sum with sort=False: the keys in order of first appearance.
RECURSIVE FirstSeen(_)
FirstSeen(q) ==
    IF q = <<>> THEN <<>>
    ELSE IF \E i \in 1..(Len(q) - 1) : q[i] = q[Len(q)]
    THEN FirstSeen(SubSeq(q, 1, Len(q) - 1))
    ELSE Append(FirstSeen(SubSeq(q, 1, Len(q) - 1)), q[Len(q)])
groupby_strike_sum_unsorted(df, value) ==
    sum_by_key(df,
               FirstSeen(numbers(df.data["Strike"],
                                 SelectPos(nrows(df),
                                           {j \in 1..nrows(df) : IsNum(df.data["Strike"][j])}))),
               value)
groupby_strike_sum(df, value) ==
    sum_by_key(df,
               Ascending({df.data["Strike"][i].n :
                            i \in {j \in 1..nrows(df) : IsNum(df.data["Strike"][j])}}),
               value)

\* The characters of the cell texts in the order of their code points, by
\* which Python compares one-character strings.
CodePoints ==
    <<
      " ", "%", "+", "-", ".", "/", "0", "1", "2", "3", "4", "5",
      "6", "7", "8", "9", ":", "A", "B", "C", "D", "E", "F", "G",
      "H", "I", "J", "K", "L", "M", "N", "O", "P", "Q", "R", "S",
      "T", "U", "V", "W", "X", "Y", "Z", "a", "b", "c", "d", "e",
      "f", "g", "h", "i", "j", "k", "l", "m", "n", "o", "p", "q",
      "r", "s", "t", "u", "v", "w", "x", "y", "z" >>

ord(ch) == CHOOSE i \in 1..Len(CodePoints) : CodePoints[i] = ch

\* s < t for two texts: the comparison of Python strings.
RECURSIVE text_lt(_, _)
text_lt(s, t) ==
    IF t = <<>> THEN FALSE
    ELSE IF s = <<>> THEN TRUE
    ELSE IF s[1] = t[1] THEN text_lt(Tail(s), Tail(t))
    ELSE ord(s[1]) < ord(t[1])

\* k < l for two group keys: tuples of texts, compared element by element.
RECURSIVE key_lt(_, _)
key_lt(k, l) ==
    IF l = <<>> THEN FALSE
    ELSE IF k = <<>> THEN TRUE
    ELSE IF k[1] = l[1] THEN key_lt(Tail(k), Tail(l))
    ELSE text_lt(k[1], l[1])

\* The group keys of a set, ascending.
RECURSIVE sorted_keys(_)
sorted_keys(S) ==
    IF S = {} THEN <<>>
    ELSE LET m == CHOOSE x \in S : \A y \in S \ {x} : key_lt(x, y)
         IN  <<m>> \o sorted_keys(S \ {m})

\* The key of row i for the grouping columns by, and the rows groupby
\* keeps: those without a missing key cell.
group_key(df, by, i) == [j \in 1..Len(by) |-> df.data[by[j]][i].s]
grouped_rows(df, by) ==
    {i \in 1..nrows(df) : \A j \in 1..Len(by) : ~isna(df.data[by[j]][i])}

\* The sum of value over the rows of each key, in the given order of keys.
sum_by_group(df, by, keys, value) ==
    [k \in 1..Len(keys) |->
        [key   |-> keys[k],
         total |-> sum([i \in 1..nrows(df) |->
                          IF i \in grouped_rows(df, by) /\ group_key(df, by, i) = keys[k]
                          THEN df.data[value][i] ELSE NaN])]]

\* groupby_sum with sort=False: the keys in order of first appearance.
groupby_sum_unsorted(df, by, value) ==
    sum_by_group(df, by,
                 FirstSeen([n \in 1..Cardinality(grouped_rows(df, by)) |->
                              group_key(df, by,
                                        SelectPos(nrows(df), grouped_rows(df, by))[n])]),
                 value)

\* df.groupby(by)[value].sum().reset_index(): one entry per distinct key,
\* the keys ascending (groupby sorts its keys unless told otherwise).
groupby_sum(df, by, value) ==
    sum_by_group(df, by,
                 sorted_keys({group_key(df, by, i) : i \in grouped_rows(df, by)}),
                 value)

\* The orders sort_values(by='Premium', ascending=False) may give a summary:
\* every arrangement of its entries with the totals descending.
descending_summaries(q) ==
    {[k \in 1..Len(q) |-> q[p[k]]] :
        p \in {f \in [1..Len(q) -> 1..Len(q)] :
                 /\ \A i, j \in 1..Len(q) : i # j => f[i] # f[j]
                 /\ \A i \in 1..(Len(q) - 1) : q[f[i]].total >= q[f[i + 1]].total}}

\* Volume / (Open Int + 1) for one row.  Finite quotients are cut to whole
\* Units; numbers in the frames are multiples of 10^4 Units.
vol_oi_ratio(volume, open_int) ==
    IF ~IsNum(volume) \/ ~IsNum(open_int) THEN NaN
    ELSE LET d == open_int.n + Unit
         IN  IF d = 0
             THEN IF volume.n = 0 THEN NaN
                  ELSE Inf(IF volume.n > 0 THEN 1 ELSE 0 - 1)
             ELSE Num(((volume.n \div 10000) * Unit) \div (d \div 10000))

\* cell >= x for a float x.
ge(c, x) ==
    CASE c.t = "num" -> c.n >= x
      [] c.t = "inf" -> c.n > 0
      [] OTHER       -> FALSE

\* A sequence of numbers, ascending (duplicates kept).
RECURSIVE Sorted(_)
Sorted(q) ==
    IF q = <<>> THEN <<>>
    ELSE LET i == CHOOSE j \in 1..Len(q) : \A k \in 1..Len(q) : q[j] <= q[k]
         IN  <<q[i]>> \o Sorted([k \in 1..(Len(q) - 1) |-> IF k < i THEN q[k] ELSE q[k + 1]])

\* Series.quantile(0.75): linear interpolation between the two ranks around
\* position 0.75 * (n - 1) of the sorted non-missing values.
interpolate(a, lo, r) ==
    IF a = <<>> THEN NaN
    ELSE IF r = 0 THEN Num(a[lo + 1])
    ELSE Num(a[lo + 1] + (r * (a[lo + 2] - a[lo + 1])) \div 4)
count(cells) == Cardinality({i \in 1..Len(cells) : IsNum(cells[i])})
quantile75(cells) ==
    interpolate(Sorted(numbers(cells, SelectPos(Len(cells),
                                                {i \in 1..Len(cells) : IsNum(cells[i])}))),
                (3 * (count(cells) - 1)) \div 4,
                (3 * (count(cells) - 1)) % 4)

\* The orders sort_values(by='Premium', ascending=False) may give the rows at
\* the positions sel: every arrangement with Premium descending (the order
\* of equal Premiums is left to the sorting algorithm).
descending_orders(df, sel) ==
    {p \in [1..Cardinality(sel) -> sel] :
        /\ \A i, j \in 1..Cardinality(sel) : i # j => p[i] # p[j]
        /\ \A i \in 1..(Cardinality(sel) - 1) :
              df.data["Premium"][p[i]].n >= df.data["Premium"][p[i + 1]].n}

\* ------------------------------------------------------------ CSV files
\* A file is missing, unreadable, or holds a header and rows of cell texts.
File(header, rows) == [status |-> "ok", header |-> header, rows |-> rows]
MissingFile   == [status |-> "missing",   header |-> {}, rows |-> <<>>]
MalformedFile == [status |-> "malformed", header |-> {}, rows |-> <<>>]

\* The tables of at most MaxRows rows drawn from a set of sample rows.
Tables(samples) == UNION {[1..k -> samples] : k \in 0..MaxRows}


\* Sample rows of CADENA.csv.
ChainHeader == {"Type", "Strike", "IV", "Moneyness", "Delta", "Volume", "Open Int"}
ChainRow(type, strike, iv, moneyness, delta, volume, open_int) ==
    ("Type" :> type) @@ ("Strike" :> strike) @@ ("IV" :> iv)
    @@ ("Moneyness" :> moneyness) @@ ("Delta" :> delta)
    @@ ("Volume" :> volume) @@ ("Open Int" :> open_int)
ChainRows ==
    {ChainRow(<<"C", "a", "l", "l">>, NatText(50), <<"7", "5", ".", "3", "7", "%">>, <<"+", "1", "5", ".", "6", "2", "%">>, <<"0", ".", "5", "5">>, NatText(100), NatText(200)),
     ChainRow(<<"P", "u", "t">>, NatText(50), <<"7", "5", ".", "3", "7">>, <<"-", "3", ".", "2", "%">>, <<"-", "0", ".", "4", "5">>, NatText(150), NatText(100)),
     ChainRow(<<"P", "u", "t">>, NatText(55), <<"u", "n", "c", "h">>, <<"N", "/", "A">>, <<>>, NatText(10), NatText(0)),
     ChainRow(<<"C", "a", "l", "l">>, NatText(45), <<"0", ".", "5">>, <<"0", ".", "1">>, <<"0", ".", "5">>, NatText(20), NatText(30))}

\* Rows of a chain file that holds none of the columns tab1 cleans.
BareHeader == {"Symbol", "Type"}
BareRow(type) == ("Symbol" :> <<"E", "Q", "T">>) @@ ("Type" :> type)
BareRows == {BareRow(Call.s), BareRow(Put.s)}

\* Sample rows of Griegas.csv.
GreeksHeader == {"Type", "Strike", "Vega", "Theta", "Open Int", "IV", "ITM Prob"}
GreeksRow(type, strike, vega, theta, open_int, iv, itm_prob) ==
    ("Type" :> type) @@ ("Strike" :> strike) @@ ("Vega" :> vega)
    @@ ("Theta" :> theta) @@ ("Open Int" :> open_int) @@ ("IV" :> iv)
    @@ ("ITM Prob" :> itm_prob)
GreeksRows ==
    {GreeksRow(<<"C", "a", "l", "l">>, NatText(50), <<"0", ".", "0", "5">>, <<"-", "0", ".", "0", "2">>, NatText(10), <<"7", "5", ".", "3", "7", "%">>, <<"6", "0", "%">>),
     GreeksRow(<<"P", "u", "t">>, NatText(50), <<"0", ".", "0", "4">>, <<"-", "0", ".", "0", "3">>, NatText(20), <<"7", "5", ".", "3", "7">>, NatText(40)),
     GreeksRow(<<"C", "a", "l", "l">>, NatText(45), <<"0", ".", "1">>, <<"-", "0", ".", "0", "1">>, NatText(5), <<"2", "0", "%">>, <<"1", "2", ".", "5", "%">>),
     GreeksRow(<<"P", "u", "t">>, NatText(55), <<"u", "n", "c", "h">>, <<"-", "0", ".", "0", "2">>, NatText(10), <<"3", "0", "%">>, <<"5", "0", "%">>),
     GreeksRow(<<"C", "a", "l", "l">>, <<"N", "/", "A">>, <<"0", ".", "0", "5">>, <<"-", "0", ".", "0", "2">>, NatText(10), <<"3", "0", "%">>, <<"5", "0", "%">>),
     GreeksRow(<<"P", "u", "t">>, NatText(45), <<"0", ".", "0", "2">>, <<"-", "0", ".", "0", "5">>, NatText(0), <<"a", "b", "c">>, <<>>),
     GreeksRow(<<"C", "a", "l", "l">>, NatText(50), <<"0", ".", "0", "5">>, <<"-", "0", ".", "0", "2">>, NatText(10), <<"0", ".", "7", "5">>, <<"0", ".", "5">>)}

\* Sample rows of Inusual.csv; the trades of Code A give "unch" for DTE, a
\* column tab3 cleans but does not require.
FlowHeader ==
    {"Symbol", "Type", "Strike", "Expires", "DTE", "Side", "Premium", "Volume",
     "Open Int", "Code", "Time", "IV", "Delta"}
FlowRow(type, side, premium, volume, open_int, code, iv, delta) ==
    ("Symbol" :> <<"E", "Q", "T">>) @@ ("Type" :> type) @@ ("Strike" :> NatText(50))
    @@ ("Expires" :> <<"2", "0", "2", "5", "-", "0", "6", "-", "2", "0">>)
    @@ ("DTE" :> IF code = <<"A">> THEN <<"u", "n", "c", "h">> ELSE NatText(30))
    @@ ("Side" :> side) @@ ("Premium" :> premium) @@ ("Volume" :> volume)
    @@ ("Open Int" :> open_int) @@ ("Code" :> code)
    @@ ("Time" :> <<"1", "0", ":", "1", "5">>) @@ ("IV" :> iv) @@ ("Delta" :> delta)
FlowRows ==
    {FlowRow(<<"C", "a", "l", "l">>, <<"B", "u", "y">>, NatText(100), NatText(1), NatText(1), <<"A">>, <<"4", "0", "%">>, <<"0", ".", "1", "5">>),
     FlowRow(<<"P", "u", "t">>, <<"S", "e", "l", "l">>, NatText(200), NatText(6), NatText(4), <<"B">>, NatText(40), <<"0", ".", "3", "2">>),
     FlowRow(<<"C", "a", "l", "l">>, <<"S", "e", "l", "l">>, NatText(300), NatText(2), NatText(0), <<"A">>, <<"4", "0", "%">>, NatText(45)),
     FlowRow(<<"P", "u", "t">>, <<"B", "u", "y">>, NatText(400), NatText(9), NatText(9), <<"B">>, <<"3", "5", ".", "5", "%">>, <<"4", "5", "%">>),
     FlowRow(<<"C", "a", "l", "l">>, <<"B", "u", "y">>, NatText(500), NatText(3), NatText(0), <<"A">>, <<"3", "5", ".", "5">>, <<"u", "n", "c", "h">>),
     FlowRow(<<"P", "u", "t">>, <<"S", "e", "l", "l">>, <<"u", "n", "c", "h">>, NatText(3), NatText(0), <<"B">>, <<"N", "/", "A">>, <<"-", "0", ".", "5">>),
     FlowRow(<<"C", "a", "l", "l">>, <<"S", "e", "l", "l">>, NatText(500), NatText(3), NatText(2), <<"B">>, <<"4", "0", "%">>, <<"-", "7", "%">>)}

\* Five trades with Premium 100..500 and Volume / (Open Int + 1) equal to
\* 0.5, 1.2, 2.0, 0.9 and 3.0.
FlowExample ==
    File(FlowHeader,
         <<FlowRow(<<"C", "a", "l", "l">>, <<"B", "u", "y">>, NatText(100), NatText(1), NatText(1), <<"A">>, <<"4", "0", "%">>, <<"0", ".", "1", "5">>),
           FlowRow(<<"P", "u", "t">>, <<"S", "e", "l", "l">>, NatText(200), NatText(6), NatText(4), <<"B">>, <<"4", "0", "%">>, <<"0", ".", "3", "2">>),
           FlowRow(<<"C", "a", "l", "l">>, <<"S", "e", "l", "l">>, NatText(300), NatText(2), NatText(0), <<"A">>, <<"4", "0", "%">>, <<"0", ".", "4", "5">>),
           FlowRow(<<"P", "u", "t">>, <<"B", "u", "y">>, NatText(400), NatText(9), NatText(9), <<"B">>, <<"4", "0", "%">>, <<"0", ".", "5">>),
           FlowRow(<<"C", "a", "l", "l">>, <<"B", "u", "y">>, NatText(500), NatText(3), NatText(0), <<"A">>, <<"4", "0", "%">>, <<"0", ".", "6">>)>>)

\* The same five trades with Volume 10 in the fourth, whose ratio is then 1.0.
FlowExampleTwo ==
    File(FlowHeader,
         [i \in 1..5 |-> IF i = 4 THEN [FlowExample.rows[i] EXCEPT !["Volume"] = NatText(10)]
                         ELSE FlowExample.rows[i]])

\* A flow file without the Time column.
FlowNoTime ==
    File(FlowHeader \ {"Time"},
         <<[c \in FlowHeader \ {"Time"} |->
              FlowRow(Call.s, <<"B", "u", "y">>, NatText(300), NatText(2), NatText(0),
                      <<"A">>, <<"4", "0", "%">>, <<"0", ".", "5">>)[c]]>>)

\* The files of one run: one of the three is any table of sample rows, the
\* other two are taken from a few fixed files.
ChainFiles == {File(ChainHeader, t) : t \in Tables(ChainRows)}
              \cup {File(BareHeader, t) : t \in Tables(BareRows)}
GreeksFiles == {File(GreeksHeader, t) : t \in Tables(GreeksRows)}
FlowFiles == {File(FlowHeader, t) : t \in Tables(FlowRows)}

FixedChainFiles ==
    {MissingFile,
     File(BareHeader, <<BareRow(Put.s)>>),
     File(ChainHeader, <<CHOOSE r \in ChainRows : r["Strike"] = <<"4", "5">>>>)}
FixedGreeksFiles ==
    {MissingFile,
     File(GreeksHeader, <<CHOOSE r \in GreeksRows : r["Strike"] = <<"4", "5">> /\ r["Type"] = Call.s>>),
     File(GreeksHeader, <<CHOOSE r \in GreeksRows : r["Vega"] = <<"u", "n", "c", "h">>>>)}
FixedFlowFiles ==
    {MissingFile, MalformedFile, FlowExample, FlowExampleTwo, FlowNoTime,
     File(FlowHeader, <<CHOOSE r \in FlowRows : r["Premium"] = <<"u", "n", "c", "h">>>>)}

Runs ==
    (ChainFiles \X FixedGreeksFiles \X FixedFlowFiles)
    \cup (FixedChainFiles \X GreeksFiles \X FixedFlowFiles)
    \cup (FixedChainFiles \X FixedGreeksFiles \X FlowFiles)

\* ------------------------------------------------------------- the script
VARIABLES
    csv,                    \* the three files: <<CADENA, Griegas, Inusual>>
    pc,                     \* the statement the run has reached
    df_cadena, df_griegas, df_inusual,
    shown,                  \* st.error / st.warning / st.info calls made
    pc_ratio_volume, pc_ratio_oi,
    vega_exposure_summary, theta_exposure_summary,
    min_premium_highlight, highlighted_trades,
    premium_summary, code_summary

vars == <<csv, pc, df_cadena, df_griegas, df_inusual, shown, pc_ratio_volume,
          pc_ratio_oi, vega_exposure_summary, theta_exposure_summary,
          min_premium_highlight, highlighted_trades, premium_summary, code_summary>>

Init ==
    /\ csv \in Runs
    /\ pc = "load_cadena"
    /\ df_cadena = EmptyFrame
    /\ df_griegas = EmptyFrame
    /\ df_inusual = EmptyFrame
    /\ shown = {}
    /\ pc_ratio_volume = Unset
    /\ pc_ratio_oi = Unset
    /\ vega_exposure_summary = Unset
    /\ theta_exposure_summary = Unset
    /\ min_premium_highlight = Unset
    /\ highlighted_trades = Unset
    /\ premium_summary = Unset
    /\ code_summary = Unset

\* df_cadena = load_data("CADENA.csv", "CADENA.csv")
LoadCadena ==
    /\ pc = "load_cadena"
    /\ LET r == load_data(csv[1], "CADENA.csv")
       IN  df_cadena' = r.df /\ shown' = shown \cup r.shown
    /\ pc' = "load_griegas"
    /\ UNCHANGED <<csv, df_griegas, df_inusual, pc_ratio_volume, pc_ratio_oi,
                   vega_exposure_summary, theta_exposure_summary,
                   min_premium_highlight, highlighted_trades, premium_summary,
                   code_summary>>

\* df_griegas = load_data("Griegas.csv", "Griegas.csv")
LoadGriegas ==
    /\ pc = "load_griegas"
    /\ LET r == load_data(csv[2], "Griegas.csv")
       IN  df_griegas' = r.df /\ shown' = shown \cup r.shown
    /\ pc' = "load_inusual"
    /\ UNCHANGED <<csv, df_cadena, df_inusual, pc_ratio_volume, pc_ratio_oi,
                   vega_exposure_summary, theta_exposure_summary,
                   min_premium_highlight, highlighted_trades, premium_summary,
                   code_summary>>

\* df_inusual = load_data("Inusual.csv", "Inusual.csv")
LoadInusual ==
    /\ pc = "load_inusual"
    /\ LET r == load_data(csv[3], "Inusual.csv")
       IN  df_inusual' = r.df /\ shown' = shown \cup r.shown
    /\ pc' = "tab1"
    /\ UNCHANGED <<csv, df_cadena, df_griegas, pc_ratio_volume, pc_ratio_oi,
                   vega_exposure_summary, theta_exposure_summary,
                   min_premium_highlight, highlighted_trades, premium_summary,
                   code_summary>>

\* with tab1: an empty frame is answered with a warning; otherwise the
\* frame is cleaned in place, the four charts are drawn (each names the
\* column Type, which plotly requires to exist) and the put/call ratios are
\* computed.  An exception ends the run.  The display of the frame as
\* loaded (line 63) assigns nothing; a chain frame on which its format
\* could fail holds IV, Delta or Moneyness, and the cleaning of such a frame
\* ends the run in tab1 with the frame as loaded in any case.
Tab1Outcome(next, df, said, volume, oi) ==
    [pc |-> next, df |-> df, shown |-> said, pc_ratio_volume |-> volume, pc_ratio_oi |-> oi]

tab1_cleaned(c) ==
    IF c.raised THEN Tab1Outcome("NameError in tab1", c.df, {}, Unset, Unset)
    ELSE IF /\ ~empty(c.df)
            /\ "Strike" \in columns(c.df)
            /\ {"Volume", "IV", "Open Int"} \cap columns(c.df) # {}
            /\ "Type" \notin columns(c.df)
    THEN Tab1Outcome("ValueError in tab1", c.df, {}, Unset, Unset)
    ELSE IF {"Volume", "Open Int", "Type"} \subseteq columns(c.df) /\ ~empty(c.df)
    THEN Tab1Outcome("tab2", c.df, {},
                     Value(pc_ratio(c.df, "Volume")), Value(pc_ratio(c.df, "Open Int")))
    ELSE Tab1Outcome("tab2", c.df, {<<"write", "no ratio data", "CADENA.csv">>},
                     Unset, Unset)

tab1(df) ==
    IF empty(df)
    THEN Tab1Outcome("tab2", df, {<<"warning", "no data", "CADENA.csv">>}, Unset, Unset)
    ELSE tab1_cleaned(clean_df_cadena(df))

Tab1 ==
    /\ pc = "tab1"
    /\ \E r \in {tab1(df_cadena)} :
          /\ pc' = r.pc
          /\ df_cadena' = r.df
          /\ shown' = shown \cup r.shown
          /\ pc_ratio_volume' = r.pc_ratio_volume
          /\ pc_ratio_oi' = r.pc_ratio_oi
    /\ UNCHANGED <<csv, df_griegas, df_inusual, vega_exposure_summary,
                   theta_exposure_summary, min_premium_highlight, highlighted_trades,
                   premium_summary, code_summary>>

\* with tab2: an empty frame is answered with a warning; otherwise the
\* frame is cleaned in place, and the Vega block (skipped on a frame without
\* rows) and the Theta block each add their exposure column to the frame
\* and sum it by Strike.
Tab2Outcome(df, said, vega, theta) ==
    [df |-> df, shown |-> said, vega_exposure_summary |-> vega,
     theta_exposure_summary |-> theta]

tab2_theta(c, vega, d1, theta) ==
    Tab2Outcome(
        IF theta THEN assign(d1, "Theta Exposure", exposure_column(d1, "Theta")) ELSE d1,
        c.shown \cup (IF vega THEN {} ELSE {<<"write", "no vega data", "Griegas.csv">>})
                \cup (IF theta THEN {} ELSE {<<"write", "no theta data", "Griegas.csv">>}),
        IF vega THEN Value(groupby_strike_sum(d1, "Vega Exposure")) ELSE Unset,
        IF theta
        THEN Value(groupby_strike_sum(
                       assign(d1, "Theta Exposure", exposure_column(d1, "Theta")),
                       "Theta Exposure"))
        ELSE Unset)

tab2_vega(c, vega) ==
    tab2_theta(c, vega,
               IF vega THEN assign(c.df, "Vega Exposure", exposure_column(c.df, "Vega"))
               ELSE c.df,
               {"Theta", "Open Int", "Strike"} \subseteq columns(c.df))

\* tab2_cleaned without the test for rows of line 243.
tab2_cleaned_unguarded(c) ==
    tab2_vega(c, {"Vega", "Open Int", "Strike"} \subseteq columns(c.df))

tab2_cleaned(c) ==
    tab2_vega(c, {"Vega", "Open Int", "Strike"} \subseteq columns(c.df) /\ ~empty(c.df))

tab2(df) ==
    IF empty(df)
    THEN Tab2Outcome(df, {<<"warning", "no data", "Griegas.csv">>}, Unset, Unset)
    ELSE tab2_cleaned(clean_df_griegas(df))

Tab2 ==
    /\ pc = "tab2"
    /\ pc' = "tab3"
    /\ \E r \in {tab2(df_griegas)} :
          /\ df_griegas' = r.df
          /\ shown' = shown \cup r.shown
          /\ vega_exposure_summary' = r.vega_exposure_summary
          /\ theta_exposure_summary' = r.theta_exposure_summary
    /\ UNCHANGED <<csv, df_cadena, df_inusual, pc_ratio_volume, pc_ratio_oi,
                   min_premium_highlight, highlighted_trades, premium_summary,
                   code_summary>>

\* Columns the scatter chart of tab3 names, and the projection shown for the
\* highlighted trades.
scatter_columns == {"Volume", "Open Int", "Premium", "Type", "Strike", "Side", "Expires"}
highlight_columns ==
    {"Symbol", "Type", "Strike", "Expires", "Side", "Premium", "Volume", "Open Int",
     "Vol_OI_Ratio", "Code", "Time"}

\* with tab3: an empty frame is answered with a warning; otherwise the
\* frame is cleaned in place, the charts are drawn (the scatter chart and
\* the histogram raise ValueError when a column they name is absent), and
\* the highlighted trades are selected from a copy of the frame, sorted and
\* shown (the projection raises KeyError when a column is absent).
Tab3Outcome(next, df, said, highlight, copy, p75, sel) ==
    [pc |-> next, df |-> df, shown |-> said, highlight |-> highlight, copy |-> copy,
     min_premium_highlight |-> p75, sel |-> sel]

\* df_inusual.copy() with the column Vol_OI_Ratio.
with_vol_oi_ratio(d) ==
    assign(d, "Vol_OI_Ratio",
           [dtype |-> "float64",
            cells |-> [i \in 1..nrows(d) |->
                         vol_oi_ratio(d.data["Volume"][i], d.data["Open Int"][i])]])

\* selected with Premium > p75 in place of >=.
selected_above(copy, p75) ==
    {i \in 1..nrows(copy) :
        /\ IsNum(copy.data["Premium"][i])
        /\ IsNum(p75)
        /\ copy.data["Premium"][i].n > p75.n
        /\ ge(copy.data["Vol_OI_Ratio"][i], Unit)}

\* Positions of the rows with Premium >= p75 and Vol_OI_Ratio >= 1.0.
selected(copy, p75) ==
    {i \in 1..nrows(copy) :
        /\ IsNum(copy.data["Premium"][i])
        /\ IsNum(p75)
        /\ copy.data["Premium"][i].n >= p75.n
        /\ ge(copy.data["Vol_OI_Ratio"][i], Unit)}

\* tab3_selected without the copy of line 393: the ratio column is left in
\* the frame.
tab3_selected_in_place(c, copy, p75, sel) ==
    IF sel # {} /\ ~(highlight_columns \subseteq columns(copy))
    THEN Tab3Outcome("KeyError in tab3", copy, c.shown, TRUE, copy, p75, sel)
    ELSE Tab3Outcome("final", copy,
                     c.shown \cup (IF sel = {}
                                   THEN {<<"info", "no highlighted trades", "Inusual.csv">>}
                                   ELSE {}),
                     TRUE, copy, p75, sel)

tab3_selected(c, copy, p75, sel) ==
    IF sel # {} /\ ~(highlight_columns \subseteq columns(copy))
    THEN Tab3Outcome("KeyError in tab3", c.df, c.shown, TRUE, copy, p75, sel)
    ELSE Tab3Outcome("final", c.df,
                     c.shown \cup (IF sel = {}
                                   THEN {<<"info", "no highlighted trades", "Inusual.csv">>}
                                   ELSE {}),
                     TRUE, copy, p75, sel)

tab3_quantile(c, copy, p75) == tab3_selected(c, copy, p75, selected(copy, p75))

tab3_highlight(c, copy) == tab3_quantile(c, copy, quantile75(copy.data["Premium"]))

tab3_cleaned(c) ==
    IF /\ {"Volume", "Open Int", "Premium"} \subseteq columns(c.df)
       /\ ~empty(c.df)
       /\ ~(scatter_columns \subseteq columns(c.df))
    THEN Tab3Outcome("ValueError in tab3", c.df, c.shown, FALSE, c.df, NaN, {})
    ELSE IF "Premium" \in columns(c.df) /\ ~empty(c.df) /\ "Side" \notin columns(c.df)
    THEN Tab3Outcome("ValueError in tab3", c.df, c.shown, FALSE, c.df, NaN, {})
    ELSE IF ~empty(c.df) /\ {"Volume", "Open Int", "Premium"} \subseteq columns(c.df)
    THEN tab3_highlight(c, with_vol_oi_ratio(c.df))
    ELSE Tab3Outcome("final", c.df,
                     c.shown \cup {<<"write", "no highlight data", "Inusual.csv">>},
                     FALSE, c.df, NaN, {})

tab3(df) ==
    IF empty(df)
    THEN Tab3Outcome("final", df, {<<"warning", "no data", "Inusual.csv">>},
                     FALSE, df, NaN, {})
    ELSE tab3_cleaned(clean_df_inusual(df))

\* The premium by Type and Side is summed first of the charts, on a frame
\* with rows whose Side is not all missing.
premium_summary_of(df) ==
    IF /\ {"Premium", "Type", "Side"} \subseteq columns(df)
       /\ ~empty(df)
       /\ \E i \in 1..nrows(df) : ~isna(df.data["Side"][i])
    THEN Value(groupby_sum(df, <<"Type", "Side">>, "Premium"))
    ELSE Unset

\* The premium by Code is summed after the scatter chart and the histogram,
\* and sorted by its totals, descending.
code_summary_of(df) ==
    IF /\ {"Code", "Premium"} \subseteq columns(df)
       /\ ~empty(df)
       /\ \E i \in 1..nrows(df) : ~isna(df.data["Code"][i])
    THEN {Value(q) : q \in descending_summaries(groupby_sum(df, <<"Code">>, "Premium"))}
    ELSE {Unset}

Tab3 ==
    /\ pc = "tab3"
    /\ \E r \in {tab3(df_inusual)} :
          /\ pc' = r.pc
          /\ df_inusual' = r.df
          /\ shown' = shown \cup r.shown
          /\ premium_summary' = premium_summary_of(r.df)
          /\ IF r.pc = "ValueError in tab3"
             THEN code_summary' = code_summary
             ELSE code_summary' \in code_summary_of(r.df)
          /\ IF r.highlight
             THEN \E order \in descending_orders(r.copy, r.sel) :
                     /\ min_premium_highlight' = Value(r.min_premium_highlight)
                     /\ highlighted_trades' = Value(take(r.copy, order))
             ELSE UNCHANGED <<min_premium_highlight, highlighted_trades>>
    /\ UNCHANGED <<csv, df_cadena, df_griegas, pc_ratio_volume, pc_ratio_oi,
                   vega_exposure_summary, theta_exposure_summary>>

\* The closing test of the script: an error when all three frames are empty.
NoDataCheck ==
    /\ pc = "final"
    /\ pc' = "done"
    /\ shown' = IF empty(df_cadena) /\ empty(df_griegas) /\ empty(df_inusual)
                THEN shown \cup {<<"error", "no data", "all files">>}
                ELSE shown
    /\ UNCHANGED <<csv, df_cadena, df_griegas, df_inusual, pc_ratio_volume,
                   pc_ratio_oi, vega_exposure_summary, theta_exposure_summary,
                   min_premium_highlight, highlighted_trades, premium_summary,
                   code_summary>>

Next ==
    \/ LoadCadena
    \/ LoadGriegas
    \/ LoadInusual
    \/ Tab1
    \/ Tab2
    \/ Tab3
    \/ NoDataCheck

Spec == Init /\ [][Next]_vars

\* ------------------------------------------------------------ properties
\* The frame of data set d (1 chain, 2 greeks, 3 flow), the columns its tab
\* declares with their kinds, and the columns its dropna names.
frame(d) == IF d = 1 THEN df_cadena ELSE IF d = 2 THEN df_griegas ELSE df_inusual

PercentageColumns(d) ==
    IF d = 1 THEN {"IV"}
    ELSE IF d = 2 THEN {c \in DOMAIN cols_to_clean_griegas : cols_to_clean_griegas[c]}
    ELSE {c \in DOMAIN cols_to_clean_inusual : cols_to_clean_inusual[c]}

DeclaredColumns(d) ==
    IF d = 1 THEN {"IV", "Moneyness"} \cup plain_numeric_cols_cadena
    ELSE IF d = 2 THEN DOMAIN cols_to_clean_griegas
    ELSE DOMAIN cols_to_clean_inusual

CriticalColumns(d) ==
    IF d = 1 THEN cols_for_style_and_plot_cadena
    ELSE IF d = 2 THEN DOMAIN cols_to_clean_griegas
    ELSE critical_cols_inusual

\* The file of data set d was read and holds at least one row.
Loaded(d) == csv[d].status = "ok" /\ csv[d].rows # <<>>

\* The run is past the tab of data set d, by its last statement or by an
\* exception raised inside it.
Stopped == pc \in {"NameError in tab1", "ValueError in tab1",
                   "ValueError in tab3", "KeyError in tab3"}
PastTab(d) ==
    CASE d = 1 -> pc \notin {"load_cadena", "load_griegas", "load_inusual", "tab1"}
      [] d = 2 -> pc \in {"tab3", "final", "done", "ValueError in tab3", "KeyError in tab3"}
      [] d = 3 -> pc \in {"final", "done", "ValueError in tab3", "KeyError in tab3"}

\* The text the file of data set d holds for row i of its frame, column c.
Text(d, i, c) == csv[d].rows[frame(d).index[i] + 1][c]

\* A text without its last character.
Chop(s) == SubSeq(s, 1, Len(s) - 1)

\* s is a decimal number, with or without a sign.
IsDecimal(s) == IsNum(ParseText(s))

\* C1: once the tab of a data set has cleaned its frame, no row of the
\* frame holds a missing value in a critical column, and the rows of the
\* frame are rows of the file in their original order.
C1_CleanedHasNoMissingCritical ==
    \A d \in 1..3 :
        (Loaded(d) /\ PastTab(d)) =>
            /\ \A c \in CriticalColumns(d) \cap csv[d].header :
                  \A i \in 1..nrows(frame(d)) : ~isna(frame(d).data[c][i])
            /\ \A i \in 1..nrows(frame(d)) : frame(d).index[i] \in 0..(Len(csv[d].rows) - 1)
            /\ \A i \in 1..(nrows(frame(d)) - 1) : frame(d).index[i] < frame(d).index[i + 1]

\* C2: once the tab of a data set has cleaned its frame, every cell of a
\* Percentage column whose text is a decimal number n, alone or followed by
\* one "%", holds n / 100.
C2_PercentageIsHundredth ==
    \A d \in 1..3 :
        (Loaded(d) /\ PastTab(d)) =>
            \A c \in PercentageColumns(d) \cap csv[d].header :
                \A i \in 1..nrows(frame(d)) :
                    LET s == Text(d, i, c)
                        n == IF IsDecimal(s) THEN ParseText(s) ELSE ParseText(Chop(s))
                    IN  (IsDecimal(s) \/ (endswith_pct(s) /\ IsDecimal(Chop(s)))) =>
                            frame(d).data[c][i] = Num(n.n \div 100)

\* C3: once tab1 has cleaned the chain frame, every Moneyness cell whose
\* text is a decimal number n, with or without a leading "+" and with or
\* without one trailing "%", holds n / 100.
C3_SignedPercentageIsHundredth ==
    (Loaded(1) /\ PastTab(1) /\ "Moneyness" \in csv[1].header) =>
        \A i \in 1..nrows(df_cadena) :
            LET s == Text(1, i, "Moneyness")
                u == IF endswith_pct(s) THEN Chop(s) ELSE s
                v == IF u # <<>> /\ u[1] = "+" THEN Tail(u) ELSE u
            IN  (IsDecimal(v) /\ v[1] # "+") =>
                    df_cadena.data["Moneyness"][i] = Num(ParseText(v).n \div 100)

\* C6: once the tab of a data set has cleaned its frame, every cell of a
\* declared column whose text is "unch", "N/A" or "" is missing.
C6_PlaceholderIsMissing ==
    \A d \in 1..3 :
        (Loaded(d) /\ PastTab(d)) =>
            \A c \in DeclaredColumns(d) \cap csv[d].header :
                \A i \in 1..nrows(frame(d)) :
                    Text(d, i, c) \in placeholders => isna(frame(d).data[c][i])

\* The Delta text of row k of the flow file as a number: one trailing run of
\* "%" removed, a text that is no number (or is empty) missing.
DeltaParsed(k) ==
    LET s == csv[3].rows[k]["Delta"]
    IN  IF s \in na_values \/ s \in placeholders THEN NaN ELSE ParseText(rstrip_pct(s))

\* Some Delta of the flow file exceeds 5 in magnitude.
DeltaLarge ==
    \E k \in 1..Len(csv[3].rows) : IsNum(DeltaParsed(k)) /\ Abs(DeltaParsed(k).n) > 5 * Unit

\* Some Delta of the flow file is written as something other than a plain
\* number or an empty cell, so that the column is read as text.
DeltaTextual ==
    \E k \in 1..Len(csv[3].rows) :
        csv[3].rows[k]["Delta"] \notin na_values /\ ~IsDecimal(csv[3].rows[k]["Delta"])

\* The Delta cells of the cleaned flow frame are the parsed Deltas of their
\* rows, divided by 100 when scaled is true.
DeltaCellsAre(scaled) ==
    \A i \in 1..nrows(df_inusual) :
        LET v == DeltaParsed(df_inusual.index[i] + 1)
        IN  df_inusual.data["Delta"][i] = (IF scaled /\ IsNum(v) THEN div100(v) ELSE v)

\* C4 as stated: once tab3 has cleaned the flow frame, if any Delta of the
\* file exceeds 5 in magnitude then every Delta cell holds its value divided
\* by 100, and otherwise every Delta cell holds its value, whatever the raw
\* encoding of the column.
C4_DeltaScaledColumnWide ==
    (Loaded(3) /\ PastTab(3) /\ "Delta" \in csv[3].header) => DeltaCellsAre(DeltaLarge)

\* C4 amended: the column-wide rule applies when the Delta column was read
\* as text (some cell carries "%" or another non-numeric text); a column read
\* as numbers is left as read, whatever its magnitudes.
C4_DeltaScaledWhenTextual ==
    (Loaded(3) /\ PastTab(3) /\ "Delta" \in csv[3].header) =>
        DeltaCellsAre(DeltaLarge /\ DeltaTextual)

\* Witness of C4's case: a textual Delta column with a value above 5, and a
\* row of magnitude at most 5 that was divided by 100 with it.
DeltaColumnScaled ==
    /\ Loaded(3) /\ PastTab(3) /\ "Delta" \in csv[3].header
    /\ DeltaLarge /\ DeltaTextual
    /\ \E i \in 1..nrows(df_inusual) :
          LET v == DeltaParsed(df_inusual.index[i] + 1)
          IN  /\ IsNum(v) /\ v.n # 0 /\ Abs(v.n) <= 5 * Unit
              /\ df_inusual.data["Delta"][i] = div100(v)

\* The cleaning of tab d applied to a frame.
CleanOf(d, df) ==
    IF d = 1 THEN clean_df_cadena(df)
    ELSE IF d = 2 THEN clean_df_griegas(df)
    ELSE clean_df_inusual(df)

\* Every declared column of the file of data set d holds a plain decimal
\* number in every row: no "%", no "+", no placeholder, no empty cell.
AlreadyClean(d) ==
    \A c \in DeclaredColumns(d) \cap csv[d].header :
        \A k \in 1..Len(csv[d].rows) :
            IsDecimal(csv[d].rows[k][c]) /\ csv[d].rows[k][c][1] # "+"

\* The cells of column c of df, each divided by 100.
Hundredths(df, c) == [i \in 1..nrows(df) |-> div100(df.data[c][i])]

\* C5 as stated: cleaning the frame a tab has cleaned from a clean file
\* gives the same frame again.
C5_CleaningIdempotent ==
    \A d \in 1..3 :
        (Loaded(d) /\ PastTab(d) /\ AlreadyClean(d)) => CleanOf(d, frame(d)).df = frame(d)

\* C5 amended: cleaning the frame a tab has cleaned from a clean file keeps
\* its rows and its columns, and every cell of every column but the
\* Percentage columns the cleaning processes, whose cells are divided by 100
\* once more.
C5_CleaningRepeatsPercentage ==
    \A d \in 1..3 :
        (Loaded(d) /\ PastTab(d) /\ AlreadyClean(d)) =>
            LET again == CleanOf(d, frame(d))
            IN  /\ again.df.index = frame(d).index
                /\ columns(again.df) = columns(frame(d))
                /\ \A c \in columns(frame(d)) :
                      again.df.data[c] =
                          IF c \in PercentageColumns(d) /\ ~again.raised
                          THEN Hundredths(frame(d), c)
                          ELSE frame(d).data[c]

\* Witness of C5's case: a clean greeks file whose cleaned frame holds a
\* non-zero IV, which a second cleaning divides by 100 again.
CleanedTwice ==
    /\ Loaded(2) /\ PastTab(2) /\ AlreadyClean(2)
    /\ \E i \in 1..nrows(df_griegas) :
          /\ IsNum(df_griegas.data["IV"][i]) /\ df_griegas.data["IV"][i].n # 0
          /\ clean_df_griegas(df_griegas).df.data["IV"][i] = div100(df_griegas.data["IV"][i])

\* The sum of column c over the rows of the chain frame of the given Type.
TypeSum(type, c) ==
    sum([i \in 1..nrows(df_cadena) |->
           IF df_cadena.data["Type"][i] = type THEN df_cadena.data[c][i] ELSE NaN])

\* The ratio v (a pair of dividend and divisor) is 0 when the Call sum of
\* column c is 0, and otherwise is the Put sum over the Call sum and positive.
RatioOf(v, c) ==
    IF TypeSum(Call, c) = 0 THEN v[1] = 0
    ELSE /\ (v[1] \div Unit) * (TypeSum(Call, c) \div Unit)
              = (TypeSum(Put, c) \div Unit) * (v[2] \div Unit)
         /\ v[1] > 0

\* C7: once tab1 has run on a chain frame with rows and the columns Type,
\* Volume and Open Int, each put/call ratio is the Put sum over the Call
\* sum: 0 when the Call sum is 0 and positive in every other case.
C7_PutCallRatio ==
    (/\ Loaded(1) /\ PastTab(1)
     /\ {"Type", "Volume", "Open Int"} \subseteq csv[1].header
     /\ ~empty(df_cadena)) =>
        /\ pc_ratio_volume.set /\ RatioOf(pc_ratio_volume.v, "Volume")
        /\ pc_ratio_oi.set /\ RatioOf(pc_ratio_oi.v, "Open Int")

\* The sum of the totals of a summary.
RECURSIVE Totals(_)
Totals(q) == IF q = <<>> THEN 0 ELSE q[Len(q)].total + Totals(SubSeq(q, 1, Len(q) - 1))

\* The sum over the rows of the greeks frame of greek * Open Int * 100.
GrandTotal(greek) ==
    sum([i \in 1..nrows(df_griegas) |->
           IF IsNum(df_griegas.data[greek][i]) /\ IsNum(df_griegas.data["Open Int"][i])
           THEN Num(100 * MulDiv(df_griegas.data[greek][i].n,
                                 df_griegas.data["Open Int"][i].n, 6))
           ELSE NaN])

\* A summary holds one entry per distinct Strike of the greeks frame, in
\* strictly ascending order of Strike, and its totals add up to the grand
\* total of the greek.
ExposureByStrike(q, greek) ==
    /\ {q[k].Strike : k \in 1..Len(q)}
          = {df_griegas.data["Strike"][i].n : i \in 1..nrows(df_griegas)}
    /\ \A k \in 1..(Len(q) - 1) : q[k].Strike < q[k + 1].Strike
    /\ Totals(q) = GrandTotal(greek)

\* C8: the Vega and the Theta exposure by strike hold one entry per
\* distinct Strike of the cleaned greeks frame, in strictly ascending order
\* of Strike, and the entries add up to the sum over all rows of
\* greek * Open Int * 100.
C8_ExposureByStrike ==
    /\ vega_exposure_summary.set => ExposureByStrike(vega_exposure_summary.v, "Vega")
    /\ theta_exposure_summary.set => ExposureByStrike(theta_exposure_summary.v, "Theta")

\* Witness of C8's case: a Vega summary of two strikes for a frame whose
\* first row has the higher Strike, with a non-zero total.
ExposureRegrouped ==
    /\ vega_exposure_summary.set
    /\ Len(vega_exposure_summary.v) >= 2
    /\ \E i \in 1..(nrows(df_griegas) - 1) :
          df_griegas.data["Strike"][i].n > df_griegas.data["Strike"][i + 1].n
    /\ Totals(vega_exposure_summary.v) # 0

\* Four times the 0.75 quantile of the Premiums of the cleaned flow frame,
\* by linear interpolation between the ranks around 0.75 * (n - 1).
FourTimesP75 ==
    LET a  == Sorted([i \in 1..nrows(df_inusual) |-> df_inusual.data["Premium"][i].n])
        lo == (3 * (Len(a) - 1)) \div 4
        r  == (3 * (Len(a) - 1)) % 4
    IN  IF r = 0 THEN 4 * a[lo + 1] ELSE 4 * a[lo + 1] + r * (a[lo + 2] - a[lo + 1])

\* Row i of the cleaned flow frame has Premium >= p75 and
\* Volume / (Open Int + 1) >= 1.
Highlighted(i) ==
    LET v == df_inusual.data["Volume"][i].n
        o == df_inusual.data["Open Int"][i].n + Unit
    IN  /\ 4 * df_inusual.data["Premium"][i].n >= FourTimesP75
        /\ \/ o > 0 /\ v >= o
           \/ o < 0 /\ v <= o
           \/ o = 0 /\ v > 0

\* C9: the highlighted trades are exactly the rows of the cleaned flow
\* frame with Premium >= the 0.75 quantile of Premium and
\* Volume / (Open Int + 1) >= 1, in order of Premium descending; for the
\* Premiums 100..500 with ratios 0.5, 1.2, 2.0, 0.9, 3.0 the quantile is 400 and
\* the only highlighted trade is the one of Premium 500.
C9_HighlightedTrades ==
    highlighted_trades.set =>
        LET h == highlighted_trades.v
        IN  /\ {h.index[k] : k \in 1..nrows(h)}
                  = {df_inusual.index[i] : i \in {j \in 1..nrows(df_inusual) : Highlighted(j)}}
            /\ \A k, l \in 1..nrows(h) : k # l => h.index[k] # h.index[l]
            /\ \A k \in 1..nrows(h) :
                  \E i \in 1..nrows(df_inusual) :
                      /\ df_inusual.index[i] = h.index[k]
                      /\ \A c \in columns(df_inusual) : h.data[c][k] = df_inusual.data[c][i]
            /\ \A k \in 1..(nrows(h) - 1) :
                  h.data["Premium"][k].n >= h.data["Premium"][k + 1].n
            /\ csv[3] = FlowExample =>
                  /\ min_premium_highlight.v = Num(400 * Unit)
                  /\ nrows(h) = 1
                  /\ h.data["Premium"][1] = Num(500 * Unit)

\* Witness of C9's case: two highlighted trades of different Premiums whose
\* rows stand in the file in the opposite order, beside a row that meets the
\* ratio but not the Premium and a row that was left out.
TradesHighlighted ==
    /\ highlighted_trades.set
    /\ nrows(highlighted_trades.v) = 2
    /\ highlighted_trades.v.data["Premium"][1].n > highlighted_trades.v.data["Premium"][2].n
    /\ highlighted_trades.v.index[1] > highlighted_trades.v.index[2]
    /\ nrows(df_inusual) > 2

\* The run has ended, by its last statement or by an exception.
Ended == pc = "done" \/ Stopped

\* C10: when the run has ended, the global error was shown exactly if none
\* of the three files gave a frame with rows, and the tab of every file that
\* did has run.
C10_GlobalErrorIffAllFailed ==
    Ended =>
        /\ <<"error", "no data", "all files">> \in shown <=> \A d \in 1..3 : ~Loaded(d)
        /\ \A d \in 1..3 : Loaded(d) => PastTab(d)

\* C11: cleaning never ends the run: no tab stops with an exception raised
\* by its cleaning, and once a tab has cleaned its frame every cell of a
\* declared column holds a number or is missing.
C11_CleaningNeverAborts ==
    /\ pc # "NameError in tab1"
    /\ \A d \in 1..3 :
          (Loaded(d) /\ PastTab(d)) =>
              \A c \in DeclaredColumns(d) \cap csv[d].header :
                  \A i \in 1..nrows(frame(d)) :
                      IsNum(frame(d).data[c][i]) \/ isna(frame(d).data[c][i])

\* The first row of the cleaned flow frame that carries a group key.
FirstRow(by, key) ==
    CHOOSE i \in grouped_rows(df_inusual, by) :
        /\ group_key(df_inusual, by, i) = key
        /\ \A j \in grouped_rows(df_inusual, by) :
              group_key(df_inusual, by, j) = key => i <= j

\* A summary holds one entry per distinct key of the cleaned flow frame,
\* with the sum of Premium over the rows of that key.
GroupedSums(q, by) ==
    /\ {q[k].key : k \in 1..Len(q)}
          = {group_key(df_inusual, by, i) : i \in grouped_rows(df_inusual, by)}
    /\ \A k, l \in 1..Len(q) : k # l => q[k].key # q[l].key
    /\ \A k \in 1..Len(q) :
          q[k].total = sum([i \in 1..nrows(df_inusual) |->
                              IF /\ i \in grouped_rows(df_inusual, by)
                                 /\ group_key(df_inusual, by, i) = q[k].key
                              THEN df_inusual.data["Premium"][i] ELSE NaN])

\* The by-Code summary holds the grouped sums, the totals descending.
CodeSummarySorted ==
    code_summary.set =>
        /\ GroupedSums(code_summary.v, <<"Code">>)
        /\ \A k \in 1..(Len(code_summary.v) - 1) :
              code_summary.v[k].total >= code_summary.v[k + 1].total

\* C12 as stated: the premium by Type and Side holds one entry per distinct
\* key with the sum of Premium of its rows, the entries in the order in
\* which their keys first appear in the cleaned flow frame; the premium by
\* Code holds the same sums, sorted by total descending.
C12_GroupsInOrderOfAppearance ==
    /\ premium_summary.set =>
          /\ GroupedSums(premium_summary.v, <<"Type", "Side">>)
          /\ \A k \in 1..(Len(premium_summary.v) - 1) :
                FirstRow(<<"Type", "Side">>, premium_summary.v[k].key)
                    < FirstRow(<<"Type", "Side">>, premium_summary.v[k + 1].key)
    /\ CodeSummarySorted

\* C12 amended: the entries of the premium by Type and Side are in ascending
\* order of their keys (Type, then Side, compared as strings), whatever the
\* order of the rows.
C12_GroupsInOrderOfKey ==
    /\ premium_summary.set =>
          /\ GroupedSums(premium_summary.v, <<"Type", "Side">>)
          /\ \A k \in 1..(Len(premium_summary.v) - 1) :
                key_lt(premium_summary.v[k].key, premium_summary.v[k + 1].key)
    /\ CodeSummarySorted

\* Witness of C12's case: two groups by Type and Side listed against the
\* order of their first rows, and two groups by Code with different totals.
GroupsReordered ==
    /\ premium_summary.set /\ Len(premium_summary.v) = 2
    /\ FirstRow(<<"Type", "Side">>, premium_summary.v[1].key)
          > FirstRow(<<"Type", "Side">>, premium_summary.v[2].key)
    /\ code_summary.set /\ Len(code_summary.v) = 2
    /\ code_summary.v[1].total > code_summary.v[2].total

\* The frame of data set d as its cleaning leaves it, before any metric.
Cleaning(d) ==
    CleanOf(d, load_data(csv[d], IF d = 1 THEN "CADENA.csv"
                                 ELSE IF d = 2 THEN "Griegas.csv" ELSE "Inusual.csv").df)

\* A frame holds the columns of a cleaned frame, with the same rows, types
\* and cells.
KeepsCleaned(df, cleaned) ==
    /\ df.index = cleaned.index
    /\ columns(cleaned) \subseteq columns(df)
    /\ \A c \in columns(cleaned) :
          df.data[c] = cleaned.data[c] /\ df.dtype[c] = cleaned.dtype[c]

\* C13 as stated: once the tab of a data set has computed its metrics, the
\* frame is exactly as its cleaning left it.
C13_MetricsLeaveFrame ==
    \A d \in 1..3 :
        (Loaded(d) /\ PastTab(d) /\ ~Cleaning(d).raised) => frame(d) = Cleaning(d).df

\* C13 amended: the metrics keep the rows and every column of the cleaned
\* frame; the chain and the flow frame are exactly as cleaned (the
\* highlighted trades work on a copy), and the greeks frame gains the
\* column Vega Exposure when the Vega summary is computed and the column
\* Theta Exposure when the Theta summary is computed, and no other.
C13_MetricsAddExposureColumns ==
    \A d \in 1..3 :
        (Loaded(d) /\ PastTab(d) /\ ~Cleaning(d).raised) =>
            /\ KeepsCleaned(frame(d), Cleaning(d).df)
            /\ columns(frame(d)) \ columns(Cleaning(d).df)
                  = IF d = 2
                    THEN {c \in {"Vega Exposure"} : vega_exposure_summary.set}
                         \cup {c \in {"Theta Exposure"} : theta_exposure_summary.set}
                    ELSE {}

\* Witness of C13's case: a run in which the exposures and the highlighted
\* trades were computed: the greeks frame holds a row and both exposure
\* columns, the flow frame is as cleaned and the ratio is in the copy only.
MetricsComputed ==
    /\ Loaded(2) /\ PastTab(2) /\ Loaded(3) /\ PastTab(3)
    /\ vega_exposure_summary.set /\ theta_exposure_summary.set
    /\ ~empty(df_griegas)
    /\ {"Vega Exposure", "Theta Exposure"} \subseteq columns(df_griegas)
    /\ highlighted_trades.set
    /\ "Vol_OI_Ratio" \in columns(highlighted_trades.v)
    /\ df_inusual = Cleaning(3).df

\* The name of the file of data set d.
FileName(d) ==
    IF d = 1 THEN "CADENA.csv" ELSE IF d = 2 THEN "Griegas.csv" ELSE "Inusual.csv"

\* The tab of data set d has run and ended with an exception.
TabRaised(d) ==
    pc \in (IF d = 1 THEN {"NameError in tab1", "ValueError in tab1"}
            ELSE IF d = 3 THEN {"ValueError in tab3", "KeyError in tab3"}
            ELSE {})

\* The tab of data set d has run and its frame holds no row.
ZeroRows(d) == PastTab(d) /\ empty(frame(d))

\* C14 as stated: on a frame without rows every metric is computed and
\* gives its identity value: each put/call ratio is 0, each exposure by
\* strike is empty and the highlighted trades are empty, with no error.
C14_ZeroRowsGiveIdentity ==
    /\ ZeroRows(1) =>
          /\ pc_ratio_volume = Value(<<0, 1>>) /\ pc_ratio_oi = Value(<<0, 1>>)
          /\ ~TabRaised(1)
    /\ ZeroRows(2) =>
          /\ vega_exposure_summary = Value(<<>>) /\ theta_exposure_summary = Value(<<>>)
          /\ ~TabRaised(2)
    /\ ZeroRows(3) =>
          /\ highlighted_trades.set /\ empty(highlighted_trades.v)
          /\ ~TabRaised(3)

\* C14 amended: on a frame without rows no tab raises and no metric is
\* computed but the Theta exposure: a frame that was loaded without rows
\* or not at all gets the warning of its tab, and a frame that lost every
\* row in cleaning gets the notice of each metric, except that the Theta
\* exposure of an emptied greeks frame is computed and is empty.
C14_ZeroRowsSkipMetrics ==
    /\ ZeroRows(1) =>
          /\ pc_ratio_volume = Unset /\ pc_ratio_oi = Unset
          /\ <<"warning", "no data", FileName(1)>> \in shown
          /\ ~TabRaised(1)
    /\ ZeroRows(2) =>
          /\ vega_exposure_summary = Unset
          /\ IF Loaded(2)
             THEN /\ <<"write", "no vega data", FileName(2)>> \in shown
                  /\ theta_exposure_summary =
                        IF {"Theta", "Open Int", "Strike"} \subseteq csv[2].header
                        THEN Value(<<>>) ELSE Unset
             ELSE /\ <<"warning", "no data", FileName(2)>> \in shown
                  /\ theta_exposure_summary = Unset
          /\ ~TabRaised(2)
    /\ ZeroRows(3) =>
          /\ highlighted_trades = Unset /\ min_premium_highlight = Unset
          /\ premium_summary = Unset /\ code_summary = Unset
          /\ IF Loaded(3)
             THEN <<"write", "no highlight data", FileName(3)>> \in shown
             ELSE <<"warning", "no data", FileName(3)>> \in shown
          /\ ~TabRaised(3)

\* Witness of C14's case: a run with no chain rows, a greeks frame and a
\* flow frame that lost every row in cleaning, and the Theta exposure empty.
ZeroRowsHandled ==
    /\ pc = "done"
    /\ ZeroRows(1) /\ ~Loaded(1)
    /\ ZeroRows(2) /\ Loaded(2)
    /\ ZeroRows(3) /\ Loaded(3)
    /\ theta_exposure_summary = Value(<<>>)
    /\ vega_exposure_summary = Unset

====
